---------------------------- MODULE Spec2Model ----------------------------
(***************************************************************************)
(* StoryWeaver AI: the idea stage (agents/idea_generator_agent.py), the    *)
(* Notion persistence adapter (utils/notion_client.py) and the linear      *)
(* pipeline Idea -> Story -> Persist -> Done that threads one story state  *)
(* through them.                                                           *)
(*                                                                         *)
(* Text is a sequence of one-character strings, so that strip(), slicing   *)
(* and concatenation are computed and not assumed.  An optional value      *)
(* (os.getenv without default, message.content) is a record                *)
(* [set, val]: None is [set |-> FALSE].                                    *)
(***************************************************************************)
EXTENDS Integers, Sequences, FiniteSets, TLC

VARIABLES
    \* ---- the pipeline (one process, runs one after the other)
    env,                \* the process environment read by os.getenv
    run,                \* number of the current pipeline invocation
    phase,              \* orchestrator state: Idea, Story, Persist, Done, Aborted
    trace,              \* orchestrator states entered by this run, in order
    state,              \* the StoryState: a function from keys to text
    given,              \* the state handed to the Idea stage (before its call)
    delta,              \* what the Idea stage returned
    entry,              \* entry point used by the Idea stage: sync | async
    outcome,            \* what the completion backend did with the request
    client,             \* client object created by IdeaGeneratorAgent.__init__
    raised,             \* exception that escaped the pipeline ("none" if none)
    requests,           \* completion requests sent by this run's Idea stage
    completionCalls,    \* calls of generate_idea_sync / generate_idea, all runs
    completionRequests, \* completion requests sent, all runs
    storeOutcome,       \* what the store did with pages.create
    storeRequests,      \* pages.create requests sent by this run
    \* ---- _truncate_text applied to an input, and again to its result
    tpc,                \* input | once | twice (off in the pipeline)
    text,               \* the argument text
    max_length,         \* the argument max_length
    once,               \* _truncate_text(text, max_length)
    twice,              \* _truncate_text(once, max_length)
    \* ---- the Notion adapter and the interactive story manager
    nenv,               \* NOTION_TOKEN and NOTION_DATABASE_ID of the environment
    npc,                \* adapter: new | ready | failed; menu: start | menu | exited
    manager,            \* the NotionStoryManager constructed (its fields)
    call,               \* the last operation called, with its arguments
    sent,               \* the requests the last operation sent to the store
    steps               \* operations called / menu iterations so far

pipeVars == <<env, run, phase, trace, state, given, delta, entry, outcome, client,
              raised, requests, completionCalls, completionRequests,
              storeOutcome, storeRequests>>
truncVars == <<tpc, text, max_length, once, twice>>
notionVars == <<nenv, npc, manager, call, sent, steps>>
vars == <<pipeVars, truncVars, notionVars>>

---------------------------------------------------------------------------
(* Bounds of the model                                                     *)

\* longest free tail of a text fed to _truncate_text
MaxSuffix == 5
\* largest of the small max_length arguments tried (beside the default)
MaxSmallLimit == 4
\* pipeline invocations per behaviour
MaxRuns == 2
\* how far past a length limit (1900, 100) the longest texts sent to the store go
MaxOver == 1
\* operations called on one manager
MaxOps == 2
\* iterations of the story manager's menu
MaxMenuSteps == 3

---------------------------------------------------------------------------
(* Text                                                                    *)

None == [set |-> FALSE, val |-> <<>>]
Some(v) == [set |-> TRUE, val |-> v]

\* Python truthiness of an optional string: None and "" are false
Truthy(x) == x.set /\ x.val # <<>>

\* a mutant: the slice keeps the whole text
SliceTo_whole(s, k) == s

\* s[:k] of Python, k negative counting from the end
SliceTo(s, k) ==
    LET n == Len(s)
        e == IF k < 0 THEN (IF n + k < 0 THEN 0 ELSE n + k)
                      ELSE (IF k > n THEN n ELSE k)
    IN  SubSeq(s, 1, e)

IsSpace(c) == c \in {" ", "\t", "\n"}

RECURSIVE LStrip(_)
LStrip(s) == IF s # <<>> /\ IsSpace(Head(s)) THEN LStrip(Tail(s)) ELSE s

RECURSIVE RStrip(_)
RStrip(s) ==
    IF s # <<>> /\ IsSpace(s[Len(s)]) THEN RStrip(SubSeq(s, 1, Len(s) - 1)) ELSE s

\* str.strip()
Strip(s) == RStrip(LStrip(s))

LowerChar(c) ==
    CASE c = "A" -> "a"
      [] c = "Z" -> "z"
      [] c = "U" -> "u"
      [] c = "R" -> "r"
      [] c = "E" -> "e"
      [] c = "O" -> "o"
      [] c = "Y" -> "y"
      [] c = "N" -> "n"
      [] OTHER -> c

\* str.lower(), on the letters the model's inputs use
Lower(s) == [i \in 1..Len(s) |-> LowerChar(s[i])]

StartsWith(s, p) == Len(s) >= Len(p) /\ SubSeq(s, 1, Len(p)) = p

\* the text of n characters c
Rep(c, n) == [i \in 1..n |-> c]

RECURSIVE SeqsUpTo(_, _)
SeqsUpTo(S, n) ==
    IF n = 0 THEN {<<>>}
    ELSE LET shorter == SeqsUpTo(S, n - 1)
         IN  shorter \cup {Append(s, c) : s \in {t \in shorter : Len(t) = n - 1}, c \in S}

---------------------------------------------------------------------------
(* utils/notion_client.py: _truncate_text                                  *)

DefaultMaxLength == 1900

Ellipsis == <<".", ".", ".">>

truncate_text_strict(t, m) ==
    IF Len(t) < m THEN t ELSE SliceTo(t, m - 3) \o Ellipsis

truncate_text(t, m) ==
    IF Len(t) <= m THEN t ELSE SliceTo(t, m - 3) \o Ellipsis

\* the inputs: short texts, and texts around the default limit
TruncChars == {"a", "."}
TruncTexts ==
    {Rep(c, n) \o s : c \in TruncChars,
                      n \in {0, DefaultMaxLength - 3},
                      s \in SeqsUpTo(TruncChars, MaxSuffix)}
TruncLimits == (0..MaxSmallLimit) \cup {DefaultMaxLength}

---------------------------------------------------------------------------
(* utils/prompts.py and agents/idea_generator_agent.py                     *)

Azure == <<"a", "z", "u", "r", "e">>
OpenAIType == <<"o", "p", "e", "n", "a", "i">>
DefaultModel == <<"g", "p", "t", "-", "4", "o">>
NoneText == <<"N", "o", "n", "e">>
ErrorPrefix ==
    <<"E", "r", "r", "o", "r", " ", "g", "e", "n", "e", "r", "a", "t", "i", "n", "g",
      " ", "i", "d", "e", "a", "s", ":", " ">>
\* str(IndexError) of choices[0] on an empty list
IndexErrorMsg ==
    <<"l", "i", "s", "t", " ", "i", "n", "d", "e", "x", " ", "o", "u", "t", " ",
      "o", "f", " ", "r", "a", "n", "g", "e">>

MaxTokens == 800
\* temperature 0.9, in tenths
TemperatureTenths == 9

\* the fixed text of IDEA_GENERATOR_PROMPT_TEMPLATE before and after
\* {user_input}, each kept as one token: the template has no other field
TemplateHead == <<"<idea template up to 'User Input: '>">>
TemplateTail == <<"<idea template after the user input>">>

\* IDEA_GENERATOR_PROMPT_TEMPLATE.format(user_input=prompt)
FormatIdeaPrompt(prompt) == TemplateHead \o prompt \o TemplateTail

\* os.getenv(name, default) and os.getenv(name)
getenv_default(e, name, default) == IF e[name].set THEN e[name].val ELSE default
getenv(e, name) == e[name]

\* str(x) of an optional string
Str(x) == IF x.set THEN x.val ELSE NoneText

\* dict.get(key, default)
Get(d, key, default) == IF key \in DOMAIN d THEN d[key] ELSE default

EmptyDict == [k \in {} |-> <<>>]
Dict1(k, v) == [x \in {k} |-> v]

\* a mutant of __init__: api_type compared without lower()
IdeaGeneratorAgent_init_case_sensitive(e) ==
    LET self == [api_type        |-> getenv_default(e, "OPENAI_API_TYPE", OpenAIType),
                 api_key         |-> getenv(e, "OPENAI_API_KEY"),
                 model           |-> getenv_default(e, "OPENAI_MODEL", DefaultModel),
                 api_base        |-> getenv(e, "OPENAI_API_BASE"),
                 api_version     |-> getenv(e, "OPENAI_API_VERSION"),
                 deployment_name |-> getenv(e, "OPENAI_DEPLOYMENT_NAME")]
    IN  IF self.api_type = Azure
        THEN IF ~(Truthy(self.api_base) /\ Truthy(self.api_version)
                    /\ Truthy(self.deployment_name))
             THEN [raised |-> "RuntimeError", client |-> "none", self |-> self]
             ELSE [raised |-> "none", client |-> "AzureOpenAI", self |-> self]
        ELSE [raised |-> "none", client |-> "OpenAI", self |-> self]

\* IdeaGeneratorAgent.__init__: the configuration read from the environment,
\* the exception raised ("none" when it returns) and the client created
IdeaGeneratorAgent_init(e) ==
    LET self == [api_type        |-> getenv_default(e, "OPENAI_API_TYPE", OpenAIType),
                 api_key         |-> getenv(e, "OPENAI_API_KEY"),
                 model           |-> getenv_default(e, "OPENAI_MODEL", DefaultModel),
                 api_base        |-> getenv(e, "OPENAI_API_BASE"),
                 api_version     |-> getenv(e, "OPENAI_API_VERSION"),
                 deployment_name |-> getenv(e, "OPENAI_DEPLOYMENT_NAME")]
    IN  IF Lower(self.api_type) = Azure
        THEN IF ~(Truthy(self.api_base) /\ Truthy(self.api_version)
                    /\ Truthy(self.deployment_name))
             THEN [raised |-> "RuntimeError", client |-> "none", self |-> self]
             ELSE [raised |-> "none", client |-> "AzureOpenAI", self |-> self]
        ELSE [raised |-> "none", client |-> "OpenAI", self |-> self]

\* What the backend does with one request: it raises an exception whose
\* str() is msg, or returns a response with `choices` choices, the first
\* one's message.content being `content` (None or a string).
ResponseOf(n, content) == [kind |-> "response", choices |-> n, content |-> content, msg |-> <<>>]
RaiseOf(msg) == [kind |-> "raise", choices |-> 0, content |-> None, msg |-> msg]
NoOutcome == [kind |-> "none", choices |-> 0, content |-> None, msg |-> <<>>]

---------------------------------------------------------------------------
(* IdeaGeneratorAgent.generate_idea_sync and generate_idea.  Each takes    *)
(* the agent, the prompt and what the backend does with a request, and     *)
(* gives the requests it sent, the exception it raised ("none" when it     *)
(* returns) and the dictionary it returned.                                *)

\* a mutant: the except clause lets the error out
generate_idea_sync_reraise(self, prompt, o) ==
    LET formatted_prompt == FormatIdeaPrompt(prompt)
        request ==
            IF Lower(self.api_type) = Azure
            THEN [client      |-> self.client,
                  model       |-> Str(self.deployment_name),
                  messages    |-> <<[role |-> "user", content |-> formatted_prompt]>>,
                  max_tokens  |-> MaxTokens,
                  temperature |-> TemperatureTenths]
            ELSE [client      |-> self.client,
                  model       |-> self.model,
                  messages    |-> <<[role |-> "user", content |-> formatted_prompt]>>,
                  max_tokens  |-> MaxTokens,
                  temperature |-> TemperatureTenths]
        content == o.content
        ideas == IF Truthy(content) THEN Strip(content.val) ELSE <<>>
        \* the exception the try block sees, if any: the backend's, or the
        \* IndexError of choices[0]
        failed == o.kind = "raise" \/ o.choices = 0
        msg == IF o.kind = "raise" THEN o.msg ELSE IndexErrorMsg
        result == IF failed
                  THEN [raised |-> "Exception", ret |-> EmptyDict]
                  ELSE [raised |-> "none", ret |-> Dict1("ideas", ideas)]
    IN  [requests |-> <<request>>, raised |-> result.raised, ret |-> result.ret]

\* a mutant: empty content reported as a failure
generate_idea_sync_empty_is_error(self, prompt, o) ==
    LET formatted_prompt == FormatIdeaPrompt(prompt)
        request ==
            IF Lower(self.api_type) = Azure
            THEN [client      |-> self.client,
                  model       |-> Str(self.deployment_name),
                  messages    |-> <<[role |-> "user", content |-> formatted_prompt]>>,
                  max_tokens  |-> MaxTokens,
                  temperature |-> TemperatureTenths]
            ELSE [client      |-> self.client,
                  model       |-> self.model,
                  messages    |-> <<[role |-> "user", content |-> formatted_prompt]>>,
                  max_tokens  |-> MaxTokens,
                  temperature |-> TemperatureTenths]
        content == o.content
        ideas == IF Truthy(content) THEN Strip(content.val) ELSE ErrorPrefix
        \* the exception the try block sees, if any: the backend's, or the
        \* IndexError of choices[0]
        failed == o.kind = "raise" \/ o.choices = 0
        msg == IF o.kind = "raise" THEN o.msg ELSE IndexErrorMsg
        result == IF failed
                  THEN [raised |-> "none", ret |-> Dict1("ideas", ErrorPrefix \o msg)]
                  ELSE [raised |-> "none", ret |-> Dict1("ideas", ideas)]
    IN  [requests |-> <<request>>, raised |-> result.raised, ret |-> result.ret]

\* a mutant: a failed request is sent a second time
generate_idea_sync_retry(self, prompt, o) ==
    LET formatted_prompt == FormatIdeaPrompt(prompt)
        request ==
            IF Lower(self.api_type) = Azure
            THEN [client      |-> self.client,
                  model       |-> Str(self.deployment_name),
                  messages    |-> <<[role |-> "user", content |-> formatted_prompt]>>,
                  max_tokens  |-> MaxTokens,
                  temperature |-> TemperatureTenths]
            ELSE [client      |-> self.client,
                  model       |-> self.model,
                  messages    |-> <<[role |-> "user", content |-> formatted_prompt]>>,
                  max_tokens  |-> MaxTokens,
                  temperature |-> TemperatureTenths]
        content == o.content
        ideas == IF Truthy(content) THEN Strip(content.val) ELSE <<>>
        \* the exception the try block sees, if any: the backend's, or the
        \* IndexError of choices[0]
        failed == o.kind = "raise" \/ o.choices = 0
        msg == IF o.kind = "raise" THEN o.msg ELSE IndexErrorMsg
        result == IF failed
                  THEN [raised |-> "none", ret |-> Dict1("ideas", ErrorPrefix \o msg)]
                  ELSE [raised |-> "none", ret |-> Dict1("ideas", ideas)]
    IN  [requests |-> IF o.kind = "raise" THEN <<request, request>> ELSE <<request>>, raised |-> result.raised, ret |-> result.ret]

\* generate_idea_sync (lines 36-74)
generate_idea_sync(self, prompt, o) ==
    LET formatted_prompt == FormatIdeaPrompt(prompt)
        request ==
            IF Lower(self.api_type) = Azure
            THEN [client      |-> self.client,
                  model       |-> Str(self.deployment_name),
                  messages    |-> <<[role |-> "user", content |-> formatted_prompt]>>,
                  max_tokens  |-> MaxTokens,
                  temperature |-> TemperatureTenths]
            ELSE [client      |-> self.client,
                  model       |-> self.model,
                  messages    |-> <<[role |-> "user", content |-> formatted_prompt]>>,
                  max_tokens  |-> MaxTokens,
                  temperature |-> TemperatureTenths]
        content == o.content
        ideas == IF Truthy(content) THEN Strip(content.val) ELSE <<>>
        \* the exception the try block sees, if any: the backend's, or the
        \* IndexError of choices[0]
        failed == o.kind = "raise" \/ o.choices = 0
        msg == IF o.kind = "raise" THEN o.msg ELSE IndexErrorMsg
        result == IF failed
                  THEN [raised |-> "none", ret |-> Dict1("ideas", ErrorPrefix \o msg)]
                  ELSE [raised |-> "none", ret |-> Dict1("ideas", ideas)]
    IN  [requests |-> <<request>>, raised |-> result.raised, ret |-> result.ret]

\* a mutant of the async entry point: the content is not stripped
generate_idea_unstripped(self, prompt, o) ==
    LET formatted_prompt == FormatIdeaPrompt(prompt)
        request ==
            IF Lower(self.api_type) = Azure
            THEN [client      |-> self.client,
                  model       |-> Str(self.deployment_name),
                  messages    |-> <<[role |-> "user", content |-> formatted_prompt]>>,
                  max_tokens  |-> MaxTokens,
                  temperature |-> TemperatureTenths]
            ELSE [client      |-> self.client,
                  model       |-> self.model,
                  messages    |-> <<[role |-> "user", content |-> formatted_prompt]>>,
                  max_tokens  |-> MaxTokens,
                  temperature |-> TemperatureTenths]
        content == o.content
        ideas == IF Truthy(content) THEN content.val ELSE <<>>
        \* the exception the try block sees, if any: the backend's, or the
        \* IndexError of choices[0]
        failed == o.kind = "raise" \/ o.choices = 0
        msg == IF o.kind = "raise" THEN o.msg ELSE IndexErrorMsg
        result == IF failed
                  THEN [raised |-> "none", ret |-> Dict1("ideas", ErrorPrefix \o msg)]
                  ELSE [raised |-> "none", ret |-> Dict1("ideas", ideas)]
    IN  [requests |-> <<request>>, raised |-> result.raised, ret |-> result.ret]

\* generate_idea, the coroutine (lines 76-114)
generate_idea(self, prompt, o) ==
    LET formatted_prompt == FormatIdeaPrompt(prompt)
        request ==
            IF Lower(self.api_type) = Azure
            THEN [client      |-> self.client,
                  model       |-> Str(self.deployment_name),
                  messages    |-> <<[role |-> "user", content |-> formatted_prompt]>>,
                  max_tokens  |-> MaxTokens,
                  temperature |-> TemperatureTenths]
            ELSE [client      |-> self.client,
                  model       |-> self.model,
                  messages    |-> <<[role |-> "user", content |-> formatted_prompt]>>,
                  max_tokens  |-> MaxTokens,
                  temperature |-> TemperatureTenths]
        content == o.content
        ideas == IF Truthy(content) THEN Strip(content.val) ELSE <<>>
        \* the exception the try block sees, if any: the backend's, or the
        \* IndexError of choices[0]
        failed == o.kind = "raise" \/ o.choices = 0
        msg == IF o.kind = "raise" THEN o.msg ELSE IndexErrorMsg
        result == IF failed
                  THEN [raised |-> "none", ret |-> Dict1("ideas", ErrorPrefix \o msg)]
                  ELSE [raised |-> "none", ret |-> Dict1("ideas", ideas)]
    IN  [requests |-> <<request>>, raised |-> result.raised, ret |-> result.ret]

\* the agent object after a successful __init__
AgentOf(ctor) ==
    [api_type        |-> ctor.self.api_type,
     model           |-> ctor.self.model,
     deployment_name |-> ctor.self.deployment_name,
     client          |-> ctor.client]

\* what a node that never got to its call reports
NodeRaised(ctor) ==
    [raised |-> ctor.raised, client |-> ctor.client, calls |-> 0,
     requests |-> <<>>, ret |-> EmptyDict]

\* a mutant: the node returns the whole state with the ideas added
ideaAgentNode_whole_state(st, e, o) ==
    LET user_prompt == Get(st, "prompt", <<>>)
        ctor == IdeaGeneratorAgent_init(e)
        ideas_result == generate_idea_sync(AgentOf(ctor), user_prompt, o)
    IN  IF ctor.raised # "none" THEN NodeRaised(ctor)
        ELSE [raised |-> ideas_result.raised, client |-> ctor.client, calls |-> 1,
              requests |-> ideas_result.requests,
              ret |-> [k \in DOMAIN st \cup DOMAIN ideas_result.ret |->
                          IF k \in DOMAIN ideas_result.ret THEN ideas_result.ret[k]
                          ELSE st[k]]]

\* ideaAgentNode: the synchronous node
ideaAgentNode(st, e, o) ==
    LET user_prompt == Get(st, "prompt", <<>>)
        ctor == IdeaGeneratorAgent_init(e)
        ideas_result == generate_idea_sync(AgentOf(ctor), user_prompt, o)
    IN  IF ctor.raised # "none" THEN NodeRaised(ctor)
        ELSE [raised |-> ideas_result.raised, client |-> ctor.client, calls |-> 1,
              requests |-> ideas_result.requests, ret |-> ideas_result.ret]

\* a mutant: the asynchronous node requires the prompt key
ideaAgentNodeAsync_prompt_required(st, e, o) ==
    LET ctor == IdeaGeneratorAgent_init(e)
        ideas_result == generate_idea(AgentOf(ctor), st["prompt"], o)
    IN  IF "prompt" \notin DOMAIN st
        THEN [raised |-> "KeyError", client |-> "none", calls |-> 0,
              requests |-> <<>>, ret |-> EmptyDict]
        ELSE IF ctor.raised # "none" THEN NodeRaised(ctor)
        ELSE [raised |-> ideas_result.raised, client |-> ctor.client, calls |-> 1,
              requests |-> ideas_result.requests, ret |-> ideas_result.ret]

\* ideaAgentNodeAsync: the asynchronous node
ideaAgentNodeAsync(st, e, o) ==
    LET user_prompt == Get(st, "prompt", <<>>)
        ctor == IdeaGeneratorAgent_init(e)
        ideas_result == generate_idea(AgentOf(ctor), user_prompt, o)
    IN  IF ctor.raised # "none" THEN NodeRaised(ctor)
        ELSE [raised |-> ideas_result.raised, client |-> ctor.client, calls |-> 1,
              requests |-> ideas_result.requests, ret |-> ideas_result.ret]

---------------------------------------------------------------------------
(* utils/notion_client.py: NotionStoryManager.create_story_page            *)

TitleMax == 100
UntitledStory == <<"U", "n", "t", "i", "t", "l", "e", "d", " ", "S", "t", "o", "r", "y">>
Generated == <<"G", "e", "n", "e", "r", "a", "t", "e", "d">>
GeneratedIdeas == <<"G", "e", "n", "e", "r", "a", "t", "e", "d", " ", "I", "d", "e", "a", "s">>
CompleteStory == <<"C", "o", "m", "p", "l", "e", "t", "e", " ", "S", "t", "o", "r", "y">>

\* the database property each story_data key is stored under
PropertyOf ==
    [k \in {"setting", "characters", "conflict", "resolution"} |->
        CASE k = "setting" -> "Setting"
          [] k = "characters" -> "Characters"
          [] k = "conflict" -> "Conflict"
          [] k = "resolution" -> "Resolution"]

\* What the store does with pages.create: it raises (APIResponseError or
\* another exception), or answers with a dict, an object with a __dict__, or
\* another value; `id` is the page id the answer carries (str(response) for
\* the last shape).
StoreAnswer(kind, id) == [kind |-> kind, id |-> id]
NoStoreOutcome == [kind |-> "none", id |-> <<>>]

\* a mutant: a failed write is reported like a successful one
create_story_page_swallow(self, story_data, so) ==
    LET base == [k \in {"Title", "Status"} |->
                    IF k = "Title"
                    THEN SliceTo(Get(story_data, "prompt", UntitledStory), TitleMax)
                    ELSE Generated]
        custom == {k \in DOMAIN PropertyOf : k \in DOMAIN story_data}
        properties == [n \in DOMAIN base \cup {PropertyOf[k] : k \in custom} |->
                          IF n \in DOMAIN base THEN base[n]
                          ELSE truncate_text(
                                   story_data[CHOOSE k \in custom : PropertyOf[k] = n],
                                   DefaultMaxLength)]
        heading_ideas == <<[type |-> "heading_1", content |-> GeneratedIdeas]>>
        ideas_paragraph ==
            IF "ideas" \in DOMAIN story_data /\ story_data["ideas"] # <<>>
            THEN <<[type |-> "paragraph",
                    content |-> truncate_text(Get(story_data, "ideas", <<>>),
                                              DefaultMaxLength)]>>
            ELSE <<>>
        story_blocks ==
            <<[type |-> "heading_1", content |-> CompleteStory],
              [type |-> "paragraph",
               content |-> truncate_text(Get(story_data, "story", <<>>),
                                         DefaultMaxLength)]>>
        request == [parent     |-> [database_id |-> self.database_id],
                    properties |-> properties,
                    children   |-> heading_ideas \o ideas_paragraph \o story_blocks]
    IN  IF so.kind \in {"APIResponseError", "Exception"}
        THEN [request |-> request, raised |-> "none", ret |-> Dict1("id", so.id)]
        ELSE [request |-> request, raised |-> "none", ret |-> Dict1("id", so.id)]

\* a mutant: the ideas paragraph is added whether or not there are ideas
create_story_page_always_ideas(self, story_data, so) ==
    LET base == [k \in {"Title", "Status"} |->
                    IF k = "Title"
                    THEN SliceTo(Get(story_data, "prompt", UntitledStory), TitleMax)
                    ELSE Generated]
        custom == {k \in DOMAIN PropertyOf : k \in DOMAIN story_data}
        properties == [n \in DOMAIN base \cup {PropertyOf[k] : k \in custom} |->
                          IF n \in DOMAIN base THEN base[n]
                          ELSE truncate_text(
                                   story_data[CHOOSE k \in custom : PropertyOf[k] = n],
                                   DefaultMaxLength)]
        heading_ideas == <<[type |-> "heading_1", content |-> GeneratedIdeas]>>
        ideas_paragraph ==
            <<[type |-> "paragraph",
               content |-> truncate_text(Get(story_data, "ideas", <<>>),
                                         DefaultMaxLength)]>>
        story_blocks ==
            <<[type |-> "heading_1", content |-> CompleteStory],
              [type |-> "paragraph",
               content |-> truncate_text(Get(story_data, "story", <<>>),
                                         DefaultMaxLength)]>>
        request == [parent     |-> [database_id |-> self.database_id],
                    properties |-> properties,
                    children   |-> heading_ideas \o ideas_paragraph \o story_blocks]
    IN  IF so.kind \in {"APIResponseError", "Exception"}
        THEN [request |-> request, raised |-> so.kind, ret |-> EmptyDict]
        ELSE [request |-> request, raised |-> "none", ret |-> Dict1("id", so.id)]

\* create_story_page: the request sent, the exception re-raised ("none"
\* when it returns) and the dictionary returned
create_story_page(self, story_data, so) ==
    LET base == [k \in {"Title", "Status"} |->
                    IF k = "Title"
                    THEN SliceTo(Get(story_data, "prompt", UntitledStory), TitleMax)
                    ELSE Generated]
        custom == {k \in DOMAIN PropertyOf : k \in DOMAIN story_data}
        properties == [n \in DOMAIN base \cup {PropertyOf[k] : k \in custom} |->
                          IF n \in DOMAIN base THEN base[n]
                          ELSE truncate_text(
                                   story_data[CHOOSE k \in custom : PropertyOf[k] = n],
                                   DefaultMaxLength)]
        heading_ideas == <<[type |-> "heading_1", content |-> GeneratedIdeas]>>
        ideas_paragraph ==
            IF "ideas" \in DOMAIN story_data /\ story_data["ideas"] # <<>>
            THEN <<[type |-> "paragraph",
                    content |-> truncate_text(Get(story_data, "ideas", <<>>),
                                              DefaultMaxLength)]>>
            ELSE <<>>
        story_blocks ==
            <<[type |-> "heading_1", content |-> CompleteStory],
              [type |-> "paragraph",
               content |-> truncate_text(Get(story_data, "story", <<>>),
                                         DefaultMaxLength)]>>
        request == [parent     |-> [database_id |-> self.database_id],
                    properties |-> properties,
                    children   |-> heading_ideas \o ideas_paragraph \o story_blocks]
    IN  IF so.kind \in {"APIResponseError", "Exception"}
        THEN [request |-> request, raised |-> so.kind, ret |-> EmptyDict]
        ELSE [request |-> request, raised |-> "none", ret |-> Dict1("id", so.id)]

---------------------------------------------------------------------------
(* utils/notion_client.py: NotionStoryManager.__init__ and the other       *)
(* operations.  A request to the store is [op, args]: the client method    *)
(* called and its keyword arguments.                                       *)

StoreFails(so) == so.kind \in {"APIResponseError", "Exception"}

NoManager == [notion_token |-> <<>>, database_id |-> <<>>, client |-> "none"]

\* a or b of Python, on optional strings
Or(a, b) == IF Truthy(a) THEN a ELSE b

\* a mutant of __init__: the token is not checked
NotionStoryManager_init_no_token_check(ne, database_id) ==
    LET notion_token == getenv(ne, "NOTION_TOKEN")
        db == Or(database_id, getenv(ne, "NOTION_DATABASE_ID"))
    IN  IF ~Truthy(db)
        THEN [raised |-> "ValueError",
              self |-> [notion_token |-> notion_token.val, database_id |-> <<>>,
                        client |-> "Client"]]
        ELSE [raised |-> "none",
              self |-> [notion_token |-> notion_token.val, database_id |-> db.val,
                        client |-> "Client"]]

\* NotionStoryManager.__init__(database_id): the exception raised ("none"
\* when it returns) and the fields set by then
NotionStoryManager_init(ne, database_id) ==
    LET notion_token == getenv(ne, "NOTION_TOKEN")
        db == Or(database_id, getenv(ne, "NOTION_DATABASE_ID"))
    IN  IF ~Truthy(notion_token)
        THEN [raised |-> "ValueError", self |-> NoManager]
        ELSE IF ~Truthy(db)
        THEN [raised |-> "ValueError",
              self |-> [notion_token |-> notion_token.val, database_id |-> <<>>,
                        client |-> "Client"]]
        ELSE [raised |-> "none",
              self |-> [notion_token |-> notion_token.val, database_id |-> db.val,
                        client |-> "Client"]]

\* get_story_pages(limit)
get_story_pages(self, limit, so) ==
    LET request == [op |-> "databases.query",
                    args |-> [database_id |-> self.database_id, page_size |-> limit]]
    IN  IF self.database_id = <<>>
        THEN [requests |-> <<>>, raised |-> "ValueError"]
        ELSE [requests |-> <<request>>,
              raised |-> IF StoreFails(so) THEN so.kind ELSE "none"]

\* update_story_page(page_id, story_data): the properties are sent as given
update_story_page(self, page_id, story_data, so) ==
    LET custom == {k \in DOMAIN PropertyOf : k \in DOMAIN story_data}
        names == (IF "prompt" \in DOMAIN story_data THEN {"Title"} ELSE {})
                 \cup {PropertyOf[k] : k \in custom}
        properties == [n \in names |->
                          IF n = "Title" THEN SliceTo(story_data["prompt"], TitleMax)
                          ELSE story_data[CHOOSE k \in custom : PropertyOf[k] = n]]
        request == [op |-> "pages.update",
                    args |-> [page_id |-> page_id, properties |-> properties]]
    IN  [requests |-> <<request>>,
         raised |-> IF StoreFails(so) THEN so.kind ELSE "none",
         ret |-> IF StoreFails(so) THEN EmptyDict ELSE Dict1("id", so.id)]

\* delete_story_page(page_id): the page is archived
delete_story_page(self, page_id, so) ==
    [requests |-> <<[op |-> "pages.update",
                     args |-> [page_id |-> page_id, archived |-> TRUE]]>>,
     raised |-> IF StoreFails(so) THEN so.kind ELSE "none"]

---------------------------------------------------------------------------
(* notion_story_manager.py: the functions behind the menu.  Each builds a  *)
(* manager of its own and catches every exception, so it gives only the    *)
(* requests it sent.                                                       *)

list_stories(ne, limit, so) ==
    LET ctor == NotionStoryManager_init(ne, None)
    IN  IF ctor.raised # "none" THEN <<>>
        ELSE get_story_pages(ctor.self, limit, so).requests

view_story_details(ne, page_id, so) ==
    LET ctor == NotionStoryManager_init(ne, None)
        retrieve == [op |-> "pages.retrieve", args |-> [page_id |-> page_id]]
        blocks == [op |-> "blocks.children.list", args |-> [page_id |-> page_id]]
    IN  IF ctor.raised # "none" THEN <<>>
        ELSE IF StoreFails(so) THEN <<retrieve>>
        ELSE <<retrieve, blocks>>

update_story_status(ne, page_id, new_status) ==
    LET ctor == NotionStoryManager_init(ne, None)
        request == [op |-> "pages.update",
                    args |-> [page_id |-> page_id,
                              properties |-> Dict1("Status", new_status)]]
    IN  IF ctor.raised # "none" THEN <<>> ELSE <<request>>

delete_story(ne, page_id, so) ==
    LET ctor == NotionStoryManager_init(ne, None)
    IN  IF ctor.raised # "none" THEN <<>>
        ELSE delete_story_page(ctor.self, page_id, so).requests

search_stories(ne, query, limit) ==
    LET ctor == NotionStoryManager_init(ne, None)
        request == [op |-> "databases.query",
                    args |-> [database_id |-> ctor.self.database_id,
                              filter |-> query, page_size |-> limit]]
    IN  IF ctor.raised # "none" \/ ctor.self.database_id = <<>> THEN <<>>
        ELSE <<request>>

---------------------------------------------------------------------------
(* The orchestrator and the stages that main.py defines: the Story stage,  *)
(* the persistence node and the graph Idea -> Story -> Persist -> Done.    *)

StoryErrorPrefix == <<"E", "r", "r", "o", "r", " ", "g", "e", "n", "e", "r", "a", "t", "i", "n", "g", " ", "s", "t", "o", "r", "y", ":", " ">>

\* a node's delta merged into the state by the graph
Merge(st, d) ==
    [k \in DOMAIN st \cup DOMAIN d |-> IF k \in DOMAIN d THEN d[k] ELSE st[k]]

\* the Story stage: one completion, whose text fills the story fields; a
\* failure becomes an error string in the stage's own field
storyNode(st, o) ==
    LET content == IF Truthy(o.content) THEN Strip(o.content.val) ELSE <<>>
    IN  IF o.kind = "raise" \/ o.choices = 0
        THEN Dict1("story", StoryErrorPrefix \o o.msg)
        ELSE [k \in {"setting", "characters", "conflict", "resolution", "story"} |->
                 content]

\* the manager the persistence node works with
Manager == [database_id |-> <<"d", "b">>]

\* the persistence node: the page id of a successful write, nothing otherwise
persistNode(st, so) ==
    LET r == create_story_page(Manager, st, so)
    IN  [request |-> r.request,
         ret |-> IF r.raised = "none" /\ "id" \in DOMAIN r.ret
                 THEN Dict1("notion_page_id", r.ret["id"])
                 ELSE EmptyDict]

---------------------------------------------------------------------------
(* Inputs                                                                  *)

EnvKeys == {"OPENAI_API_TYPE", "OPENAI_API_KEY", "OPENAI_MODEL", "OPENAI_API_BASE",
            "OPENAI_API_VERSION", "OPENAI_DEPLOYMENT_NAME"}

OptValues == {None, Some(<<>>), Some(<<"v">>)}
AzureTypes == {Some(Azure), Some(<<"A", "z", "U", "R", "E">>)}
OtherTypes == {None, Some(OpenAIType)}

MkEnv(t, b, v, d) ==
    [k \in EnvKeys |->
        CASE k = "OPENAI_API_TYPE" -> t
          [] k = "OPENAI_API_KEY" -> Some(<<"k">>)
          [] k = "OPENAI_MODEL" -> None
          [] k = "OPENAI_API_BASE" -> b
          [] k = "OPENAI_API_VERSION" -> v
          [] k = "OPENAI_DEPLOYMENT_NAME" -> d]

\* every azure configuration; the other backends with the azure fields all
\* unset or all set
Envs ==
    {MkEnv(t, b, v, d) : t \in AzureTypes, b \in OptValues, v \in OptValues,
                         d \in OptValues}
    \cup {MkEnv(t, x, x, x) : t \in OtherTypes, x \in {None, Some(<<"v">>)}}

\* the state a run is invoked with: {prompt: p}, or no prompt at all
InitialStates ==
    {Dict1("prompt", p) : p \in {<<>>, <<"c", "a", "t">>, <<" ", "a">>}}
    \cup {EmptyDict}

IdeaOutcomes ==
    {RaiseOf(<<>>), RaiseOf(<<"b", "o", "o", "m">>),
     ResponseOf(0, None), ResponseOf(1, None),
     ResponseOf(1, Some(<<>>)), ResponseOf(1, Some(<<" ">>)),
     ResponseOf(1, Some(<<"i", "d">>)), ResponseOf(1, Some(<<" ", "i", "d", "\n">>)),
     ResponseOf(1, Some(ErrorPrefix \o <<"x">>))}

StoryOutcomes == {RaiseOf(<<"b", "o", "o", "m">>), ResponseOf(1, Some(<<"s", "t">>))}

PageIds == {<<"p", "1">>}
StoreOutcomes ==
    {StoreAnswer(k, id) : k \in {"dict", "object", "other"}, id \in PageIds}
    \cup {StoreAnswer(k, <<>>) : k \in {"APIResponseError", "Exception"}}

EntryPoints == {"sync", "async"}

---------------------------------------------------------------------------
(* The pipeline                                                            *)

NotionOff ==
    /\ nenv = [k \in {"NOTION_TOKEN", "NOTION_DATABASE_ID"} |-> None]
    /\ npc = "off"
    /\ manager = NoManager
    /\ call = [op |-> "none"]
    /\ sent = <<>>
    /\ steps = 0

TruncOff ==
    /\ tpc = "off"
    /\ text = <<>>
    /\ max_length = 0
    /\ once = <<>>
    /\ twice = <<>>

FreshRun(st) ==
    /\ phase' = "Idea"
    /\ trace' = <<"Idea">>
    /\ state' = st
    /\ given' = EmptyDict
    /\ delta' = EmptyDict
    /\ entry' = "none"
    /\ outcome' = NoOutcome
    /\ client' = "none"
    /\ raised' = "none"
    /\ requests' = <<>>
    /\ storeOutcome' = NoStoreOutcome
    /\ storeRequests' = <<>>

Init ==
    /\ env \in Envs
    /\ run = 1
    /\ phase = "Idea"
    /\ trace = <<"Idea">>
    /\ state \in InitialStates
    /\ given = EmptyDict
    /\ delta = EmptyDict
    /\ entry = "none"
    /\ outcome = NoOutcome
    /\ client = "none"
    /\ raised = "none"
    /\ requests = <<>>
    /\ completionCalls = 0
    /\ completionRequests = 0
    /\ storeOutcome = NoStoreOutcome
    /\ storeRequests = <<>>
    /\ TruncOff
    /\ NotionOff

\* the Idea state: the node is called through one of its entry points; an
\* exception it raises ends the run
IdeaStage ==
    /\ phase = "Idea"
    /\ \E ep \in EntryPoints, o \in IdeaOutcomes :
         LET r == IF ep = "sync" THEN ideaAgentNode(state, env, o)
                                 ELSE ideaAgentNodeAsync(state, env, o)
         IN  /\ given' = state
             /\ entry' = ep
             /\ outcome' = IF r.requests = <<>> THEN NoOutcome ELSE o
             /\ client' = r.client
             /\ raised' = r.raised
             /\ requests' = r.requests
             /\ completionCalls' = completionCalls + r.calls
             /\ completionRequests' = completionRequests + Len(r.requests)
             /\ delta' = r.ret
             /\ state' = IF r.raised = "none" THEN Merge(state, r.ret) ELSE state
             /\ phase' = IF r.raised = "none" THEN "Story" ELSE "Aborted"
             /\ trace' = IF r.raised = "none" THEN Append(trace, "Story") ELSE trace
    /\ UNCHANGED <<env, run, storeOutcome, storeRequests, truncVars, notionVars>>

StoryStage ==
    /\ phase = "Story"
    /\ \E o \in StoryOutcomes : state' = Merge(state, storyNode(state, o))
    /\ phase' = "Persist"
    /\ trace' = Append(trace, "Persist")
    /\ UNCHANGED <<env, run, given, delta, entry, outcome, client, raised, requests,
                   completionCalls, completionRequests, storeOutcome, storeRequests,
                   truncVars, notionVars>>

PersistStage ==
    /\ phase = "Persist"
    /\ \E so \in StoreOutcomes :
         LET r == persistNode(state, so)
         IN  /\ storeOutcome' = so
             /\ storeRequests' = Append(storeRequests, r.request)
             /\ state' = Merge(state, r.ret)
    /\ phase' = "Done"
    /\ trace' = Append(trace, "Done")
    /\ UNCHANGED <<env, run, given, delta, entry, outcome, client, raised, requests,
                   completionCalls, completionRequests, truncVars, notionVars>>

\* the next invocation of the pipeline, with a state of its own
NewRun ==
    /\ phase \in {"Done", "Aborted"}
    /\ run < MaxRuns
    /\ run' = run + 1
    /\ \E st \in InitialStates : FreshRun(st)
    /\ UNCHANGED <<env, completionCalls, completionRequests, truncVars, notionVars>>

Next == IdeaStage \/ StoryStage \/ PersistStage \/ NewRun

Spec == Init /\ [][Next]_vars

---------------------------------------------------------------------------
(* _truncate_text on its own: an input, the result, the result truncated   *)
(* again at the same limit                                                 *)

PipelineOff ==
    /\ env = MkEnv(None, None, None, None)
    /\ run = 0
    /\ phase = "Off"
    /\ trace = <<>>
    /\ state = EmptyDict
    /\ given = EmptyDict
    /\ delta = EmptyDict
    /\ entry = "none"
    /\ outcome = NoOutcome
    /\ client = "none"
    /\ raised = "none"
    /\ requests = <<>>
    /\ completionCalls = 0
    /\ completionRequests = 0
    /\ storeOutcome = NoStoreOutcome
    /\ storeRequests = <<>>

TruncInit ==
    /\ PipelineOff
    /\ NotionOff
    /\ tpc = "input"
    /\ text \in TruncTexts
    /\ max_length \in TruncLimits
    /\ once = <<>>
    /\ twice = <<>>

TruncateOnce ==
    /\ tpc = "input"
    /\ once' = truncate_text(text, max_length)
    /\ tpc' = "once"
    /\ UNCHANGED <<text, max_length, twice, pipeVars, notionVars>>

TruncateAgain ==
    /\ tpc = "once"
    /\ twice' = truncate_text(once, max_length)
    /\ tpc' = "twice"
    /\ UNCHANGED <<text, max_length, once, pipeVars, notionVars>>

TruncNext == TruncateOnce \/ TruncateAgain

SpecTrunc == TruncInit /\ [][TruncNext]_vars

---------------------------------------------------------------------------
(* The persistence adapter on its own: a manager is constructed and its    *)
(* operations are called, in any order.  `sent` holds the requests of the  *)
(* last operation called.                                                  *)

NotionEnvs ==
    {[k \in {"NOTION_TOKEN", "NOTION_DATABASE_ID"} |->
         IF k = "NOTION_TOKEN" THEN t ELSE d] :
        t \in {None, Some(<<>>), Some(<<"t">>)}, d \in {None, Some(<<>>), Some(<<"d">>)}}

DatabaseIdArgs == {None, Some(<<>>), Some(<<"x">>)}

\* a text of n characters in which every third is a "b"
Pattern(n) == [i \in 1..n |-> IF i % 3 = 0 THEN "b" ELSE "a"]

PromptValues == {None, Some(<<>>), Some(Pattern(3)), Some(Pattern(TitleMax)),
                 Some(Pattern(TitleMax + MaxOver))}
LongValues == {None, Some(<<>>), Some(<<"i", "d">>), Some(Pattern(DefaultMaxLength)),
               Some(Pattern(DefaultMaxLength + MaxOver))}

RichKeys == {"setting", "characters", "conflict", "resolution"}
\* the four rich-text fields: absent, short and different, at the limit, past
\* the limit, or only `conflict` and past the limit
RichValues ==
    {[k \in {} |-> <<>>],
     [k \in RichKeys |-> <<k>>],
     [k \in RichKeys |-> Pattern(DefaultMaxLength)],
     [k \in RichKeys |-> Pattern(DefaultMaxLength + MaxOver)],
     [k \in {"conflict"} |-> <<"x">> \o Pattern(DefaultMaxLength)]}

MkStoryData(prompt, rich, ideas, story) ==
    LET opt == [k \in {"prompt", "ideas", "story"} |->
                   CASE k = "prompt" -> prompt [] k = "ideas" -> ideas [] k = "story" -> story]
        present == {k \in DOMAIN opt : opt[k].set}
    IN  [k \in present \cup DOMAIN rich |-> IF k \in present THEN opt[k].val ELSE rich[k]]

\* each field varied in turn beside short values of the others, the state
\* without any key, and the state with every field past its limit
StoryDatas ==
    LET p0 == Some(Pattern(3))
        r0 == [k \in RichKeys |-> <<k>>]
        i0 == Some(<<"i", "d">>)
        s0 == Some(<<"s", "t">>)
    IN  {MkStoryData(p, r0, i0, s0) : p \in PromptValues}
        \cup {MkStoryData(p0, r, i0, s0) : r \in RichValues}
        \cup {MkStoryData(p0, r0, i, s0) : i \in LongValues}
        \cup {MkStoryData(p0, r0, i0, st) : st \in LongValues}
        \cup {MkStoryData(None, [k \in {} |-> <<>>], None, None),
              MkStoryData(Some(Pattern(TitleMax + MaxOver)),
                          [k \in RichKeys |-> Pattern(DefaultMaxLength + MaxOver)],
                          Some(Pattern(DefaultMaxLength + MaxOver)),
                          Some(Pattern(DefaultMaxLength + MaxOver)))}

\* the statuses a caller passes: the three of the schema, and another
Draft == <<"D", "r", "a", "f", "t">>
Published == <<"P", "u", "b", "l", "i", "s", "h", "e", "d">>
StatusArgs == {Generated, Draft, Published, <<"A", "r", "c", "h", "i", "v", "e", "d">>}

AdapterOutcomes == {StoreAnswer("dict", <<"p", "1">>), StoreAnswer("APIResponseError", <<>>)}

StoreInit ==
    /\ PipelineOff
    /\ TruncOff
    /\ nenv \in NotionEnvs
    /\ npc = "new"
    /\ manager = NoManager
    /\ call = [op |-> "none"]
    /\ sent = <<>>
    /\ steps = 0

Construct ==
    /\ npc = "new"
    /\ \E arg \in DatabaseIdArgs :
         LET ctor == NotionStoryManager_init(nenv, arg)
         IN  /\ manager' = ctor.self
             /\ npc' = IF ctor.raised = "none" THEN "ready" ELSE "failed"
             /\ call' = [op |-> "__init__", database_id |-> arg, raised |-> ctor.raised]
    /\ UNCHANGED <<nenv, sent, steps, pipeVars, truncVars>>

CreatePage ==
    /\ npc = "ready"
    /\ steps < MaxOps
    /\ \E d \in StoryDatas, so \in AdapterOutcomes :
         LET r == create_story_page(manager, d, so)
         IN  /\ sent' = <<[op |-> "pages.create", args |-> r.request]>>
             /\ call' = [op |-> "create_story_page", story_data |-> d,
                         raised |-> r.raised]
    /\ steps' = steps + 1
    /\ UNCHANGED <<nenv, npc, manager, pipeVars, truncVars>>

UpdatePage ==
    /\ npc = "ready"
    /\ steps < MaxOps
    /\ \E id \in PageIds, d \in StoryDatas, so \in AdapterOutcomes :
         LET r == update_story_page(manager, id, d, so)
         IN  /\ sent' = r.requests
             /\ call' = [op |-> "update_story_page", story_data |-> d,
                         raised |-> r.raised]
    /\ steps' = steps + 1
    /\ UNCHANGED <<nenv, npc, manager, pipeVars, truncVars>>

UpdateStatus ==
    /\ npc = "ready"
    /\ steps < MaxOps
    /\ \E id \in PageIds, st \in StatusArgs :
         /\ sent' = update_story_status(nenv, id, st)
         /\ call' = [op |-> "update_story_status", new_status |-> st, raised |-> "none"]
    /\ steps' = steps + 1
    /\ UNCHANGED <<nenv, npc, manager, pipeVars, truncVars>>

GetPages ==
    /\ npc = "ready"
    /\ steps < MaxOps
    /\ \E so \in AdapterOutcomes :
         LET r == get_story_pages(manager, 10, so)
         IN  /\ sent' = r.requests
             /\ call' = [op |-> "get_story_pages", raised |-> r.raised]
    /\ steps' = steps + 1
    /\ UNCHANGED <<nenv, npc, manager, pipeVars, truncVars>>

DeletePage ==
    /\ npc = "ready"
    /\ steps < MaxOps
    /\ \E id \in PageIds, so \in AdapterOutcomes :
         LET r == delete_story_page(manager, id, so)
         IN  /\ sent' = r.requests
             /\ call' = [op |-> "delete_story_page", raised |-> r.raised]
    /\ steps' = steps + 1
    /\ UNCHANGED <<nenv, npc, manager, pipeVars, truncVars>>

StoreNext == Construct \/ CreatePage \/ UpdatePage \/ UpdateStatus \/ GetPages \/ DeletePage

SpecStore == StoreInit /\ [][StoreNext]_vars

---------------------------------------------------------------------------
(* The interactive story manager: main() of notion_story_manager.py.  One  *)
(* action is one iteration of the menu loop: the lines the user types and  *)
(* the requests the chosen function sends.                                 *)

Digits == {"0", "1", "2", "3", "4", "5", "6", "7", "8", "9"}
\* str.isdigit()
IsDigit(s) == s # <<>> /\ \A i \in 1..Len(s) : s[i] \in Digits
DigitValue(c) == CHOOSE v \in 0..9 : c = <<"0", "1", "2", "3", "4", "5", "6", "7", "8", "9">>[v + 1]
\* int(s) of a string of digits
RECURSIVE ToInt(_)
ToInt(s) == IF s = <<>> THEN 0
            ELSE 10 * ToInt(SubSeq(s, 1, Len(s) - 1)) + DigitValue(s[Len(s)])
\* limit = int(limit) if limit.isdigit() else 10
LimitOf(line) == IF IsDigit(Strip(line)) THEN ToInt(Strip(line)) ELSE 10

\* a mutant: every answer counts as a confirmation
Confirmed_any(line) == TRUE

\* confirm = input(...).strip().lower(); confirm == "y"
Confirmed(line) == Lower(Strip(line)) = <<"y">>

\* the lines typed at the prompts
ChoiceLines == {<<"1">>, <<"2">>, <<"3">>, <<"4">>, <<"5">>, <<"6">>,
                <<" ", "4", " ">>, <<"4", "4">>, <<"9">>, <<"y">>, <<>>}
PageIdLines == {<<>>, <<" ">>, <<"p", "1">>, <<" ", "p", "1", " ">>}
ConfirmLines == {<<"y">>, <<"Y">>, <<" ", "Y", " ">>, <<"n">>, <<"y", "e", "s">>, <<>>}
StatusLines == StatusArgs \cup {<<>>, <<" ">>}
QueryLines == {<<>>, <<"c", "a", "t">>}
LimitLines == {<<>>, <<"5">>, <<"1", "2">>, <<"x">>}

MenuInit ==
    /\ PipelineOff
    /\ TruncOff
    /\ nenv \in NotionEnvs
    /\ npc = "start"
    /\ manager = NoManager
    /\ call = [op |-> "none"]
    /\ sent = <<>>
    /\ steps = 0

\* main() up to the loop: it returns at once when a variable is missing
MenuStart ==
    /\ npc = "start"
    /\ npc' = IF ~Truthy(getenv(nenv, "NOTION_TOKEN"))
                 \/ ~Truthy(getenv(nenv, "NOTION_DATABASE_ID"))
              THEN "exited" ELSE "menu"
    /\ call' = [op |-> "main", choice |-> <<>>, page_id |-> <<>>, answer |-> <<>>]
    /\ UNCHANGED <<nenv, manager, sent, steps, pipeVars, truncVars>>

\* one iteration that stays in the loop: what was typed, what was sent
Iteration(choice, page_id, answer, reqs) ==
    /\ npc = "menu"
    /\ steps < MaxMenuSteps
    /\ call' = [op |-> "menu", choice |-> choice, page_id |-> page_id,
                answer |-> answer]
    /\ sent' = reqs
    /\ steps' = steps + 1
    /\ UNCHANGED <<nenv, npc, manager, pipeVars, truncVars>>

MenuList ==
    \E choice \in ChoiceLines, limit \in LimitLines, so \in AdapterOutcomes :
        /\ Strip(choice) = <<"1">>
        /\ Iteration(choice, <<>>, limit, list_stories(nenv, LimitOf(limit), so))

MenuView ==
    \E choice \in ChoiceLines, page_id \in PageIdLines, so \in AdapterOutcomes :
        /\ Strip(choice) = <<"2">>
        /\ Iteration(choice, page_id, <<>>,
                     IF Strip(page_id) # <<>>
                     THEN view_story_details(nenv, Strip(page_id), so)
                     ELSE <<>>)

MenuUpdateStatus ==
    \E choice \in ChoiceLines, page_id \in PageIdLines, new_status \in StatusLines :
        /\ Strip(choice) = <<"3">>
        /\ Iteration(choice, page_id, IF Strip(page_id) # <<>> THEN new_status ELSE <<>>,
                     IF Strip(page_id) # <<>> /\ Strip(new_status) # <<>>
                     THEN update_story_status(nenv, Strip(page_id), Strip(new_status))
                     ELSE <<>>)

MenuDelete ==
    \E choice \in ChoiceLines, page_id \in PageIdLines, confirm \in ConfirmLines,
       so \in AdapterOutcomes :
        /\ Strip(choice) = <<"4">>
        /\ Iteration(choice, page_id, IF Strip(page_id) # <<>> THEN confirm ELSE <<>>,
                     IF Strip(page_id) # <<>> /\ Confirmed(confirm)
                     THEN delete_story(nenv, Strip(page_id), so)
                     ELSE <<>>)

MenuSearch ==
    \E choice \in ChoiceLines, query \in QueryLines, limit \in LimitLines :
        /\ Strip(choice) = <<"5">>
        /\ Iteration(choice, <<>>, IF Strip(query) # <<>> THEN limit ELSE <<>>,
                     IF Strip(query) # <<>>
                     THEN search_stories(nenv, Strip(query), LimitOf(limit))
                     ELSE <<>>)

MenuExit ==
    /\ npc = "menu"
    /\ steps < MaxMenuSteps
    /\ \E choice \in ChoiceLines :
         /\ Strip(choice) = <<"6">>
         /\ call' = [op |-> "menu", choice |-> choice, page_id |-> <<>>,
                     answer |-> <<>>]
    /\ npc' = "exited"
    /\ sent' = <<>>
    /\ steps' = steps + 1
    /\ UNCHANGED <<nenv, manager, pipeVars, truncVars>>

MenuInvalid ==
    \E choice \in ChoiceLines :
        /\ Strip(choice) \notin {<<"1">>, <<"2">>, <<"3">>, <<"4">>, <<"5">>, <<"6">>}
        /\ Iteration(choice, <<>>, <<>>, <<>>)

MenuNext ==
    \/ MenuStart
    \/ MenuList
    \/ MenuView
    \/ MenuUpdateStatus
    \/ MenuDelete
    \/ MenuSearch
    \/ MenuExit
    \/ MenuInvalid

SpecMenu == MenuInit /\ [][MenuNext]_vars

---------------------------------------------------------------------------
(* Properties                                                              *)

Linear == <<"Idea", "Story", "Persist", "Done">>
IsPrefix(a, b) == Len(a) <= Len(b) /\ SubSeq(b, 1, Len(a)) = a
WellFormedPrompt == "prompt" \in DOMAIN state /\ state["prompt"] # <<>>
RunEnded == phase \in {"Done", "Aborted"}
\* the Idea stage's adapter call was made and has returned or raised
IdeaCalled == entry # "none" /\ requests # <<>>
StoreFailed == storeOutcome.kind \in {"APIResponseError", "Exception"}
StoreSucceeded == storeOutcome.kind \in {"dict", "object", "other"}

\* C1: every run started with a non-empty prompt visits Idea, Story, Persist
\* and Done, each once and in this order, none skipped: what it has visited is
\* always a prefix of that sequence, and a run that has ended visited all four.
C1_EveryRunVisitsAllFour ==
    WellFormedPrompt =>
        /\ IsPrefix(trace, Linear)
        /\ (RunEnded => trace = Linear)

\* C2: when the backend raises during the Idea stage's request, through
\* either entry point, the stage raises nothing, returns ideas = "Error
\* generating ideas: " followed by the message, and the Story stage runs next.
C2_BackendErrorBecomesIdeas ==
    (IdeaCalled /\ outcome.kind = "raise") =>
        /\ raised = "none"
        /\ delta = Dict1("ideas", ErrorPrefix \o outcome.msg)
        /\ StartsWith(state["ideas"], ErrorPrefix)
        /\ phase \in {"Story", "Persist", "Done"}
        /\ (phase = "Story" => ENABLED StoryStage)

C2_Witness ==
    /\ IdeaCalled
    /\ outcome = RaiseOf(<<"b", "o", "o", "m">>)
    /\ entry = "async"
    /\ phase = "Persist"
    /\ "story" \in DOMAIN state

\* C3: a response whose first choice has content "" is a success: ideas is
\* the empty string and no error string.
C3_EmptyContentIsSuccess ==
    (IdeaCalled /\ outcome.kind = "response" /\ outcome.choices >= 1
        /\ outcome.content = Some(<<>>)) =>
        /\ raised = "none"
        /\ delta = Dict1("ideas", <<>>)
        /\ ~StartsWith(delta["ideas"], ErrorPrefix)

C3_Witness ==
    /\ IdeaCalled
    /\ entry = "sync"
    /\ outcome = ResponseOf(1, Some(<<>>))
    /\ phase = "Story"
    /\ state["ideas"] = <<>>

\* C4: at the default limit, a text longer than 1900 characters becomes
\* exactly 1900 characters, the first 1897 of the text followed by "...";
\* a text of at most 1900 characters is returned unchanged.
C4_TruncationAtDefaultLimit ==
    (tpc # "input" /\ max_length = DefaultMaxLength) =>
        IF Len(text) > 1900
        THEN /\ Len(once) = 1900
             /\ SubSeq(once, 1898, 1900) = <<".", ".", ".">>
             /\ SubSeq(once, 1, 1897) = SubSeq(text, 1, 1897)
        ELSE once = text

C4_Witness ==
    /\ tpc = "once"
    /\ max_length = DefaultMaxLength
    /\ Len(text) = 1901
    /\ text[1900] = "a"
    /\ text[1901] = "a"
    /\ Len(once) = 1900

\* C5: truncating twice at the same limit gives what truncating once gives,
\* for every text and every limit.
C5_TruncationIdempotent == tpc = "twice" => twice = once

\* C6: with api_type azure in any letter case and api_base, api_version or
\* deployment_name unset or empty, construction raises, no client exists and
\* no request has been sent.
C6_IncompleteAzureFailsAtConstruction ==
    (/\ entry # "none"
     /\ env["OPENAI_API_TYPE"].set
     /\ Lower(env["OPENAI_API_TYPE"].val) = <<"a", "z", "u", "r", "e">>
     /\ \E k \in {"OPENAI_API_BASE", "OPENAI_API_VERSION", "OPENAI_DEPLOYMENT_NAME"} :
            ~env[k].set \/ env[k].val = <<>>) =>
        /\ raised = "RuntimeError"
        /\ client = "none"
        /\ requests = <<>>
        /\ completionRequests = 0
        /\ completionCalls = 0
        /\ phase = "Aborted"

C6_Witness ==
    /\ phase = "Aborted"
    /\ raised = "RuntimeError"
    /\ env["OPENAI_API_TYPE"] = Some(<<"A", "z", "U", "R", "E">>)
    /\ env["OPENAI_API_BASE"] = Some(<<"v">>)
    /\ env["OPENAI_API_VERSION"] = Some(<<"v">>)
    /\ env["OPENAI_DEPLOYMENT_NAME"] = Some(<<>>)

\* C7: notion_page_id is in the final state only if the store write
\* succeeded; a failed write still ends in Done, adds no notion_page_id and
\* leaves every field of the state as the Idea and Story stages wrote it.
C7_PageIdOnlyOnSuccess ==
    /\ [](("notion_page_id" \in DOMAIN state) => (phase = "Done" /\ StoreSucceeded))
    /\ [](phase = "Done" /\ StoreFailed => "notion_page_id" \notin DOMAIN state)
    /\ [][phase = "Persist" =>
            /\ phase' = "Done"
            /\ storeOutcome'.kind \in {"APIResponseError", "Exception"} => state' = state
         ]_vars

C7_Witness ==
    /\ phase = "Done"
    /\ storeOutcome.kind = "APIResponseError"
    /\ "notion_page_id" \notin DOMAIN state
    /\ "story" \in DOMAIN state
    /\ "ideas" \in DOMAIN state
    /\ Len(storeRequests) = 1

\* C8: for the same state, configuration and backend outcome, the entry
\* point that was not used sends the same single request and returns the same
\* delta as the one that was.
C8_SyncAsyncEquivalent ==
    IdeaCalled =>
        LET other == IF entry = "sync" THEN ideaAgentNodeAsync(given, env, outcome)
                                       ELSE ideaAgentNode(given, env, outcome)
        IN  /\ Len(requests) = 1
            /\ other.requests = requests
            /\ other.raised = raised
            /\ other.ret = delta
            /\ other.client = client

C8_Witness ==
    /\ IdeaCalled
    /\ entry = "async"
    /\ outcome = ResponseOf(1, Some(<<" ", "i", "d", "\n">>))
    /\ delta = Dict1("ideas", <<"i", "d">>)
    /\ requests[1].temperature = 9
    /\ requests[1].max_tokens = 800

\* the fields each orchestrator state's stage owns
Owned(ph) ==
    CASE ph = "Idea" -> {"ideas"}
      [] ph = "Story" -> {"setting", "characters", "conflict", "resolution", "story"}
      [] ph = "Persist" -> {"notion_page_id"}
      [] OTHER -> {}

C10_OneRequestPerCall ==
    /\ completionRequests = completionCalls
    /\ (entry # "none" /\ raised = "none") =>
           (Len(requests) = 1 /\ completionCalls >= 1)

C10_Witness ==
    /\ run = 2
    /\ IdeaCalled
    /\ outcome.kind = "raise"
    /\ completionCalls = 2
    /\ completionRequests = 2

\* C11: a configuration error is the only fault that escapes the pipeline, and
\* it is raised before the Idea state is entered: once a stage has been
\* invoked no exception has escaped, and an exception that has escaped left no
\* state visited.
C11_ConfigErrorBeforeIdea ==
    /\ raised \in {"none", "RuntimeError"}
    /\ raised # "none" => (entry = "none" /\ trace = <<>>)

RichProperties == {"Setting", "Characters", "Conflict", "Resolution"}

\* C12: on every path by which the adapter submits story text, each Setting,
\* Characters, Conflict and Resolution value in a request sent to the store is
\* at most 1900 characters long.
C12_RichTextWithinLimit ==
    \A i \in 1..Len(sent) :
        "properties" \in DOMAIN sent[i].args =>
            \A n \in RichProperties \cap DOMAIN sent[i].args.properties :
                Len(sent[i].args.properties[n]) <= DefaultMaxLength

\* C13: whatever sequence of create_story_page and update_story_status calls
\* was made, the Status submitted for a record is one of Generated, Draft and
\* Published, and a record being created is submitted with Status Generated.
C13_StatusEnumerated ==
    \A i \in 1..Len(sent) :
        ("properties" \in DOMAIN sent[i].args
         /\ "Status" \in DOMAIN sent[i].args.properties) =>
            /\ sent[i].args.properties["Status"] \in {Generated, Draft, Published}
            /\ sent[i].op = "pages.create" =>
                   sent[i].args.properties["Status"] = Generated

\* the first k characters of s, the whole of s when it is shorter
FirstChars(s, k) == [i \in 1..(IF Len(s) < k THEN Len(s) ELSE k) |-> s[i]]

\* C14: the Title submitted by create_story_page and by update_story_page is
\* the first 100 characters of story_data's prompt, so at most 100 characters
\* long; create_story_page without a prompt submits "Untitled Story".
C14_TitleIsPromptPrefix ==
    (call.op \in {"create_story_page", "update_story_page"} /\ sent # <<>>) =>
        LET d == call.story_data
            properties == sent[1].args.properties
        IN  /\ "prompt" \in DOMAIN d =>
                /\ "Title" \in DOMAIN properties
                /\ properties["Title"] = FirstChars(d["prompt"], 100)
                /\ Len(properties["Title"]) <= 100
            /\ (call.op = "create_story_page" /\ "prompt" \notin DOMAIN d) =>
                /\ "Title" \in DOMAIN properties
                /\ properties["Title"] = UntitledStory

\* update_story_page, a manager's second operation, was given a prompt of more
\* than 100 characters and submitted a Title of 100
C14_Witness ==
    /\ call.op = "update_story_page"
    /\ "prompt" \in DOMAIN call.story_data
    /\ Len(call.story_data["prompt"]) > 100
    /\ Len(sent) = 1
    /\ Len(sent[1].args.properties["Title"]) = 100
    /\ steps = 2

Heading(t) == [type |-> "heading_1", content |-> t]
Paragraph(t) == [type |-> "paragraph", content |-> t]
\* a text as a block of the record shows it: whole up to 1900 characters, cut
\* to 1897 and "..." beyond
Shown(t) == IF Len(t) <= 1900 THEN t ELSE FirstChars(t, 1897) \o <<".", ".", ".">>
\* the body with both pairs, and the body without the ideas paragraph
BothPairs(d) ==
    <<Heading(GeneratedIdeas), Paragraph(Shown(Get(d, "ideas", <<>>))),
      Heading(CompleteStory), Paragraph(Shown(Get(d, "story", <<>>)))>>
NoIdeasParagraph(d) ==
    <<Heading(GeneratedIdeas),
      Heading(CompleteStory), Paragraph(Shown(Get(d, "story", <<>>)))>>

\* C15 as stated: every record created by create_story_page has a body of
\* exactly two heading-plus-paragraph pairs, "Generated Ideas" with the ideas
\* text and then "Complete Story" with the story text, for every story_data,
\* one whose ideas is absent or empty included.
C15_BodyAlwaysTwoPairs ==
    call.op = "create_story_page" =>
        sent[1].args.children = BothPairs(call.story_data)

\* C15, amended: a record created from a story_data with non-empty ideas has
\* the two pairs in this order; one created from a story_data whose ideas is
\* absent or empty has the "Generated Ideas" heading without a paragraph,
\* followed by the "Complete Story" heading and its paragraph.
C15_BodyPairsWhenIdeas ==
    call.op = "create_story_page" =>
        LET d == call.story_data
        IN  sent[1].args.children =
                IF "ideas" \in DOMAIN d /\ d["ideas"] # <<>>
                THEN BothPairs(d)
                ELSE NoIdeasParagraph(d)

\* a record was created from a story_data whose ideas is the empty text: its
\* body has three blocks
C15_Witness ==
    /\ call.op = "create_story_page"
    /\ "ideas" \in DOMAIN call.story_data
    /\ call.story_data["ideas"] = <<>>
    /\ Len(sent) = 1
    /\ Len(sent[1].args.children) = 3

\* C17: a state without a `prompt` key does not make the Idea stage fail: the
\* stage sends the request, returns the delta and ends as it does for the
\* state {prompt: ""} under the same configuration and backend answer, and
\* with a complete configuration nothing is raised.
C17_AbsentPromptIsEmpty ==
    (entry # "none" /\ "prompt" \notin DOMAIN given) =>
        LET empty == Dict1("prompt", <<>>)
            r == IF entry = "sync" THEN ideaAgentNode(empty, env, outcome)
                                   ELSE ideaAgentNodeAsync(empty, env, outcome)
        IN  /\ raised = r.raised
            /\ requests = r.requests
            /\ delta = r.ret
            /\ raised # "KeyError"
            /\ IdeaGeneratorAgent_init(env).raised = "none" =>
                   /\ raised = "none"
                   /\ Len(requests) = 1
                   /\ requests[1].messages[1].content = FormatIdeaPrompt(<<>>)

\* the asynchronous node was called with a state without prompt and returned
\* the ideas of the backend's answer
C17_Witness ==
    /\ entry = "async"
    /\ "prompt" \notin DOMAIN given
    /\ raised = "none"
    /\ Len(requests) = 1
    /\ "ideas" \in DOMAIN delta
    /\ delta["ideas"] = <<"i", "d">>

\* C18: for every text and every max_length from 0 up, 0, 1 and 2 included,
\* _truncate_text(text, max_length) is at most max_length characters long.
C18_ResultWithinMaxLength ==
    tpc \in {"once", "twice"} => Len(once) <= max_length

\* the environment and argument for which construction is to fail
TokenMissing == ~nenv["NOTION_TOKEN"].set \/ nenv["NOTION_TOKEN"].val = <<>>
NoDatabaseId(arg) ==
    /\ ~arg.set \/ arg.val = <<>>
    /\ ~nenv["NOTION_DATABASE_ID"].set \/ nenv["NOTION_DATABASE_ID"].val = <<>>

\* C20: construction of a NotionStoryManager fails, with no store request
\* issued and none possible afterwards, when NOTION_TOKEN is unset or empty or
\* when neither the database_id argument nor NOTION_DATABASE_ID is non-empty,
\* and only then; a constructed manager has a non-empty token and a non-empty
\* database id in every later operation, and the requests carry that id.
C20_ConstructionFailsFast ==
    /\ call.op = "__init__" =>
           /\ call.raised # "none" <=> (TokenMissing \/ NoDatabaseId(call.database_id))
           /\ call.raised \in {"none", "ValueError"}
           /\ npc = (IF call.raised = "none" THEN "ready" ELSE "failed")
    /\ npc = "failed" =>
           /\ sent = <<>>
           /\ steps = 0
           /\ ~ENABLED StoreNext
    /\ npc = "ready" =>
           /\ ~TokenMissing
           /\ manager.notion_token = nenv["NOTION_TOKEN"].val
           /\ manager.database_id # <<>>
           /\ \A i \in 1..Len(sent) :
                  "database_id" \in DOMAIN sent[i].args =>
                      sent[i].args.database_id # <<>>

\* construction was attempted with an empty NOTION_TOKEN and a database id at
\* hand, and raised ValueError before any request
C20_Witness ==
    /\ call.op = "__init__"
    /\ call.raised = "ValueError"
    /\ npc = "failed"
    /\ nenv["NOTION_TOKEN"] = Some(<<>>)
    /\ nenv["NOTION_DATABASE_ID"] = Some(<<"d">>)
    /\ manager.client = "none"
    /\ sent = <<>>

\* a request that archives a page
IsArchive(req) ==
    /\ req.op = "pages.update"
    /\ "archived" \in DOMAIN req.args
    /\ req.args.archived = TRUE

\* C19: in the story manager's menu a request that archives a page is sent
\* only in an iteration where the user chose option 4, entered a non-empty
\* page id and answered the confirmation with "y" after trimming and
\* lower-casing; the page archived is the one entered.  No other input, and
\* no start of main() without its variables, sends one.
C19_ArchiveOnlyWhenConfirmed ==
    \A i \in 1..Len(sent) :
        IsArchive(sent[i]) =>
            /\ call.op = "menu"
            /\ Strip(call.choice) = <<"4">>
            /\ Strip(call.page_id) # <<>>
            /\ Lower(Strip(call.answer)) = <<"y">>
            /\ sent[i].args.page_id = Strip(call.page_id)

\* after another iteration the user chose 4, entered " p1 " and answered
\* " Y ": the page p1 was archived
C19_Witness ==
    /\ call.op = "menu"
    /\ call.choice = <<" ", "4", " ">>
    /\ call.page_id = <<" ", "p", "1", " ">>
    /\ call.answer = <<" ", "Y", " ">>
    /\ Len(sent) = 1
    /\ IsArchive(sent[1])
    /\ sent[1].args.page_id = <<"p", "1">>
    /\ steps = 2

============================================================================
